---------------------------- MODULE Spec2Model ----------------------------
(***************************************************************************)
(* Model of wasm/nam-multi-instance.cpp: the C API that keeps a registry   *)
(* of NAM instances (std::map<int, unique_ptr<nam::DSP>>), a global sample *)
(* rate / maximum buffer size, and the one-shot fast-tanh flag.            *)
(*                                                                         *)
(* Every exported function that writes state or audio is one action; the   *)
(* read-only exports are operators on the current state.  The engine       *)
(* (nam::DSP) and the factory (nam::get_dsp) are external; they are        *)
(* modelled by what the file observes of them: a returned pointer or       *)
(* nullptr, a thrown exception, the arguments of the calls made on them.   *)
(* The file is built with C++ exceptions (it has a try/catch), so an       *)
(* exception thrown by the engine outside that try block leaves the        *)
(* exported function and reaches the host, which may go on calling.        *)
(*                                                                         *)
(* Spec runs the exports one call at a time.  The file takes no lock, so   *)
(* SpecAudio lets the control thread's calls fall between the two halves   *)
(* of the audio thread's nam_process, and SpecControl runs nam_loadModel   *)
(* and the two setters step by step on two threads.                        *)
(***************************************************************************)
EXTENDS Integers, Sequences, FiniteSets

(* ------------------------------ bounds -------------------------------- *)
\* number of nam_createInstance calls explored
MaxCreates == 2
\* number of engines nam::get_dsp constructs in a run
MaxLoads == 2
\* length of the audio blocks handed to nam_process
BlockLen == 2

(* ------------------------- program constants -------------------------- *)
DefaultSampleRate == 48000
DefaultMaxBufferSize == 128
SizeofFloat == 4
\* size_t of the wasm32 target is 32 bits wide: a byte count is taken modulo
\* 2^32, so a count of 4-byte floats is taken modulo 2^30
SizeTFloats == 2 ^ 30

(* ------------------------------ inputs -------------------------------- *)
\* handles a host may pass; each is unknown until nam_createInstance returns
\* it and again after nam_destroyInstance erases it
Handles == 0 .. MaxCreates - 1
Rates == {44100, DefaultSampleRate}
Sizes == {DefaultMaxBufferSize, 256}
\* the input block: a rising ramp of samples 1 .. BlockLen, so that a copy that
\* reorders, shifts, drops or zeroes samples shows
Blocks == {[i \in 1 .. BlockLen |-> i]}
FrameCounts == 0 .. BlockLen
\* the output block as the host hands it to nam_process: zeroes, which no
\* input sample is
FreshOutput == [i \in 1 .. BlockLen |-> 0]
\* model descriptions (the JSON text), by what the collaborator does with it:
\*   "ok"     builds an engine with loudness metadata
\*   "small"  builds an engine whose Reset raises for buffers above 128
\*   "nowarm" builds an engine whose prewarm raises
\*   "null"   get_dsp returns nullptr
\*   "bad"    get_dsp throws
Descs == {"ok", "small", "nowarm", "null", "bad"}

NoEngine == [kind |-> "nullptr"]
NoHandle == 0 - 1
\* host threads that call into the module besides the audio thread
Threads == {1, 2}
\* a thread that is not inside any exported function
Idle == [pc |-> "idle"]

VARIABLES
    instances,        \* the std::map: live handle -> engine record or NoEngine
    nextInstanceId,   \* int nextInstanceId
    sampleRate,       \* float sampleRate
    maxBufferSize,    \* int maxBufferSize
    fastTanhEnabled,  \* bool fastTanhEnabled
    \* observation of the run (not program state)
    tanhCalls,        \* calls of Activation::enable_fast_tanh so far
    built,            \* engines constructed so far (the next engine's identity)
    released,         \* identities of the engines destroyed so far
    issued,           \* handles returned by nam_createInstance, in call order
    destroyed,        \* handles nam_destroyInstance was called on while known
    nErased,          \* nam_destroyInstance calls that found their handle
    triedLoad,        \* some nam_loadModel call found its handle
    loadedOnce,       \* some nam_loadModel call has returned true
    last,             \* the last call: its arguments, result, collaborator calls
    \* calls in flight when the host does not serialize them
    audio,            \* the audio thread: where its nam_process call stands
    ctl               \* each control thread: where its call stands

vars == <<instances, nextInstanceId, sampleRate, maxBufferSize, fastTanhEnabled,
          tanhCalls, built, released, issued, destroyed, nErased, triedLoad,
          loadedOnce, last, audio, ctl>>

\* the program's own state
prog == <<instances, nextInstanceId, sampleRate, maxBufferSize, fastTanhEnabled>>

(* --------------------------- the registry ----------------------------- *)
\* the std::map after construction
EmptyMap == [k \in {} |-> NoEngine]
\* instances.find(id) != instances.end()
Found(id) == id \in DOMAIN instances
\* it != instances.end() && it->second
Holds(id) == Found(id) /\ instances[id] # NoEngine
\* instances.size()
Size(m) == Cardinality(DOMAIN m)
\* instances[id] = v, it->second = v (insert or overwrite)
Put(m, id, v) == [k \in DOMAIN m \cup {id} |-> IF k = id THEN v ELSE m[k]]
\* instances.erase(it)
Erase_Through(m, id) == [k \in {j \in DOMAIN m : j > id} |-> m[k]]
Erase(m, id) == [k \in DOMAIN m \ {id} |-> m[k]]
\* identity of the engine a slot owns, released when the slot is overwritten,
\* cleared or erased (unique_ptr)
SlotEngine(id) == IF Holds(id) THEN {instances[id].eid} ELSE {}

(* ---------------------- the engine collaborator ----------------------- *)
\* nam::get_dsp(jsonStr): throws, returns nullptr, or returns a new engine
GetDspThrows(d) == d = "bad"
GetDspNull(d) == d = "null"
NewEngine(d, eid) ==
    [kind |-> d, eid |-> eid, cfg |-> <<0, 0>>, warmed |-> FALSE, mem |-> 0]
\* dsp->Reset(rate, size): cfg records the arguments of the last Reset call
\* made on the engine; a Reset that returns also clears the engine's memory
ResetRaises(e, size) == e.kind = "small" /\ size > DefaultMaxBufferSize
ResetCalled(e, rate, size) ==
    IF ResetRaises(e, size)
    THEN [e EXCEPT !.cfg = <<rate, size>>]
    ELSE [e EXCEPT !.cfg = <<rate, size>>, !.mem = 0]
\* dsp->prewarm()
PrewarmRaises(e) == e.kind = "nowarm"
Prewarmed(e) == [e EXCEPT !.warmed = TRUE]
\* dsp->HasLoudness(), dsp->GetLoudness() (a double, in half units)
HasLoudness(e) == e.kind = "ok"
GetLoudness(e) == -37
\* static_cast<float>(double): the nearest value with one bit less, ties to even
ToFloat(x) == IF x % 2 = 0 THEN x ELSE IF (x + 1) % 4 = 0 THEN x + 1 ELSE x - 1
\* dsp->process(input, output, n): a stateful transform, never the identity;
\* mem is 1 once the engine has taken in a sample since its last Reset
TransformOut(e, input, output, n) ==
    [i \in 1 .. BlockLen |->
        IF i <= n
        THEN 2 * input[i] + (IF i = 1 THEN e.mem ELSE 1)
        ELSE output[i]]
TransformMem(e, input, n) == IF n > 0 THEN 1 ELSE e.mem

\* numFrames * sizeof(float), computed in size_t
ByteCount_NoSizeof(numFrames) == numFrames % SizeTFloats
ByteCount(numFrames) == (numFrames % SizeTFloats) * SizeofFloat
\* std::memcpy(dst, src, nbytes) on blocks that do not overlap
Memcpy(dst, src, nbytes) ==
    [i \in 1 .. BlockLen |-> IF i * SizeofFloat <= nbytes THEN src[i] ELSE dst[i]]

(* ------------------------- record of a call --------------------------- *)
\* op: the function called; id: its handle argument; found: the lookup
\* found the handle; ok: the boolean result; val: the numeric result or
\* argument; inp, out: the input block and the output block after the call;
\* log: the collaborator calls made, in order; raised: an exception left the
\* function
Call(op, id, found, ok, val, inp, out, log, raised) ==
    [op |-> op, id |-> id, found |-> found, ok |-> ok, val |-> val, inp |-> inp,
     out |-> out, log |-> log, raised |-> raised]
NoBlock == <<>>

Init ==
    /\ instances = EmptyMap
    /\ nextInstanceId = 0
    /\ sampleRate = DefaultSampleRate
    /\ maxBufferSize = DefaultMaxBufferSize
    /\ fastTanhEnabled = FALSE
    /\ tanhCalls = 0
    /\ built = 0
    /\ released = {}
    /\ issued = <<>>
    /\ destroyed = {}
    /\ nErased = 0
    /\ triedLoad = FALSE
    /\ loadedOnce = FALSE
    /\ last = Call("start", NoHandle, FALSE, FALSE, 0, NoBlock, NoBlock, <<>>, FALSE)
    /\ audio = Idle
    /\ ctl = [t \in Threads |-> Idle]

(* ------------------------------ queries ------------------------------- *)
\* the read-only exports: functions of the current state
nam_getInstanceCount == Size(instances)
nam_hasModel(id) == Found(id) /\ instances[id] # NoEngine
nam_getSampleRate == sampleRate
nam_getMaxBufferSize == maxBufferSize
nam_getModelLoudness_Unguarded(id) ==
    IF Found(id) /\ instances[id] # NoEngine
    THEN ToFloat(GetLoudness(instances[id]))
    ELSE 0
nam_getModelLoudness(id) ==
    IF Found(id) /\ instances[id] # NoEngine /\ HasLoudness(instances[id])
    THEN ToFloat(GetLoudness(instances[id]))
    ELSE 0
nam_hasModelLoudness(id) ==
    Found(id) /\ instances[id] # NoEngine /\ HasLoudness(instances[id])

(* ----------------------------- operations ----------------------------- *)
\* int id = nextInstanceId++
NewId_MapSize == Size(instances)
NewId == nextInstanceId

nam_createInstance ==
    /\ nextInstanceId' = nextInstanceId + 1
    /\ instances' = Put(instances, NewId, NoEngine)
    /\ issued' = Append(issued, NewId)
    /\ last' = Call("createInstance", NoHandle, FALSE, FALSE, NewId, NoBlock,
                    NoBlock, <<>>, FALSE)
    /\ UNCHANGED <<sampleRate, maxBufferSize, fastTanhEnabled, tanhCalls, built,
                   released, destroyed, nErased, triedLoad, loadedOnce>>

\* if (it != instances.end()) instances.erase(it)
Destroyed_KeepsEntry(m, id) ==
    IF id \in DOMAIN m THEN Put(m, id, NoEngine) ELSE m
Destroyed_FirstIfMissing(m, id) ==
    IF id \in DOMAIN m THEN Erase(m, id)
    ELSE IF DOMAIN m = {} THEN m
    ELSE Erase(m, CHOOSE k \in DOMAIN m : \A j \in DOMAIN m : k <= j)
Destroyed(m, id) == IF id \in DOMAIN m THEN Erase(m, id) ELSE m

nam_destroyInstance(id) ==
    /\ instances' = Destroyed(instances, id)
    /\ released' = released \cup SlotEngine(id)
    /\ destroyed' = IF Found(id) THEN destroyed \cup {id} ELSE destroyed
    /\ nErased' = IF Found(id) THEN nErased + 1 ELSE nErased
    /\ last' = Call("destroyInstance", id, Found(id), FALSE, 0, NoBlock, NoBlock,
                    <<>>, FALSE)
    /\ UNCHANGED <<nextInstanceId, sampleRate, maxBufferSize, fastTanhEnabled,
                   tanhCalls, built, issued, triedLoad, loadedOnce>>

\* the flag after the guarded enable_fast_tanh() at the head of the try block
TanhFlagAfter_OnSuccess(flag, stored) == flag \/ stored
TanhFlagAfter(flag, stored) == TRUE
\* the collaborator calls of a load, in program order
LoadCalls_EnableLate(flag, noDsp, resetFails) ==
    <<"get_dsp">> \o (IF flag THEN <<>> ELSE <<"enable_fast_tanh">>)
      \o (IF noDsp THEN <<>> ELSE <<"Reset">>)
      \o (IF noDsp \/ resetFails THEN <<>> ELSE <<"prewarm">>)
LoadCalls(flag, noDsp, resetFails) ==
    (IF flag THEN <<>> ELSE <<"enable_fast_tanh">>) \o <<"get_dsp">>
      \o (IF noDsp THEN <<>> ELSE <<"Reset">>)
      \o (IF noDsp \/ resetFails THEN <<>> ELSE <<"prewarm">>)
\* it->second = std::move(dsp) is reached only past Reset and prewarm
SlotAfterLoad_StoreFirst(m, id, dsp, noDsp, stored) ==
    IF noDsp THEN m ELSE Put(m, id, dsp)
SlotAfterLoad_KeepsOld(m, id, dsp, noDsp, stored) ==
    IF stored /\ m[id] = NoEngine THEN Put(m, id, dsp) ELSE m
SlotAfterLoad(m, id, dsp, noDsp, stored) ==
    IF stored THEN Put(m, id, dsp) ELSE m

\* the try block of nam_loadModel, entered once the handle was found
LoadKnown(id, d) ==
      LET dsp0 == NewEngine(d, built)
          dsp1 == ResetCalled(dsp0, sampleRate, maxBufferSize)
          dsp2 == Prewarmed(dsp1)
          noDsp == GetDspThrows(d) \/ GetDspNull(d)
          resetFails == ~noDsp /\ ResetRaises(dsp0, maxBufferSize)
          warmFails == ~noDsp /\ ~resetFails /\ PrewarmRaises(dsp1)
          stored == ~noDsp /\ ~resetFails /\ ~warmFails
      IN
      /\ fastTanhEnabled' = TanhFlagAfter(fastTanhEnabled, stored)
      /\ tanhCalls' = IF fastTanhEnabled THEN tanhCalls ELSE tanhCalls + 1
      /\ built' = IF noDsp THEN built ELSE built + 1
      /\ instances' = SlotAfterLoad(instances, id, dsp2, noDsp, stored)
      /\ released' = IF noDsp THEN released
                     ELSE IF stored THEN released \cup SlotEngine(id)
                     ELSE released \cup {dsp0.eid}
      /\ triedLoad' = TRUE
      /\ loadedOnce' = (loadedOnce \/ stored)
      /\ last' = Call("loadModel", id, TRUE, stored, 0, NoBlock, NoBlock,
                      LoadCalls(fastTanhEnabled, noDsp, resetFails), FALSE)
      /\ UNCHANGED <<nextInstanceId, sampleRate, maxBufferSize, issued, destroyed,
                     nErased>>

\* the lookup at the head of nam_loadModel: an unknown handle returns false
nam_loadModel_Inserts(id, d) ==
    IF ~Found(id)
    THEN /\ instances' = Put(instances, id, NoEngine)
         /\ last' = Call("loadModel", id, FALSE, FALSE, 0, NoBlock, NoBlock, <<>>,
                         FALSE)
         /\ UNCHANGED <<nextInstanceId, sampleRate, maxBufferSize,
                        fastTanhEnabled, tanhCalls, built, released, issued,
                        destroyed, nErased, triedLoad, loadedOnce>>
    ELSE LoadKnown(id, d)
nam_loadModel(id, d) ==
    IF ~Found(id)
    THEN /\ last' = Call("loadModel", id, FALSE, FALSE, 0, NoBlock, NoBlock, <<>>,
                         FALSE)
         /\ UNCHANGED <<instances, nextInstanceId, sampleRate, maxBufferSize,
                        fastTanhEnabled, tanhCalls, built, released, issued,
                        destroyed, nErased, triedLoad, loadedOnce>>
    ELSE LoadKnown(id, d)

\* it->second.reset()
Unloaded_Noop(m, id) == m
Unloaded_Erases(m, id) == IF id \in DOMAIN m THEN Erase(m, id) ELSE m
Unloaded(m, id) == IF id \in DOMAIN m THEN Put(m, id, NoEngine) ELSE m

nam_unloadModel(id) ==
    /\ instances' = Unloaded(instances, id)
    /\ released' = released \cup SlotEngine(id)
    /\ last' = Call("unloadModel", id, Found(id), FALSE, 0, NoBlock, NoBlock, <<>>,
                    FALSE)
    /\ UNCHANGED <<nextInstanceId, sampleRate, maxBufferSize, fastTanhEnabled,
                   tanhCalls, built, issued, destroyed, nErased, triedLoad,
                   loadedOnce>>

nam_process(id, input, output, numFrames) ==
    /\ IF Holds(id)
       THEN /\ instances' = [instances EXCEPT ![id].mem =
                                TransformMem(instances[id], input, numFrames)]
            /\ last' = Call("process", id, TRUE, FALSE, numFrames, input,
                            TransformOut(instances[id], input, output, numFrames),
                            <<"process">>, FALSE)
       ELSE /\ instances' = instances
            /\ last' = Call("process", id, Found(id), FALSE, numFrames, input,
                            Memcpy(output, input, ByteCount(numFrames)),
                            <<>>, FALSE)
    /\ UNCHANGED <<nextInstanceId, sampleRate, maxBufferSize, fastTanhEnabled,
                   tanhCalls, built, released, issued, destroyed, nErased,
                   triedLoad, loadedOnce>>

\* for (auto& [id, dsp] : instances) if (dsp) dsp->Reset(rate, size): the map
\* is walked in ascending key order and the first Reset that raises ends the walk
Reached(m, size) ==
    LET loaded == {k \in DOMAIN m : m[k] # NoEngine}
        raising == {k \in loaded : ResetRaises(m[k], size)}
    IN {k \in loaded : \A r \in raising : k <= r}
ResetAll(m, rate, size) ==
    [k \in DOMAIN m |-> IF k \in Reached(m, size)
                        THEN ResetCalled(m[k], rate, size) ELSE m[k]]
ResetAllRaises(m, size) ==
    \E k \in DOMAIN m : m[k] # NoEngine /\ ResetRaises(m[k], size)
ResetAllLog(m, size) == [i \in 1 .. Cardinality(Reached(m, size)) |-> "Reset"]

nam_setSampleRate_StoresLast(rate) ==
    /\ sampleRate' = IF ResetAllRaises(instances, maxBufferSize) THEN sampleRate
                     ELSE rate
    /\ instances' = ResetAll(instances, rate, maxBufferSize)
    /\ last' = Call("setSampleRate", NoHandle, FALSE, FALSE, rate, NoBlock, NoBlock,
                    ResetAllLog(instances, maxBufferSize),
                    ResetAllRaises(instances, maxBufferSize))
    /\ UNCHANGED <<nextInstanceId, maxBufferSize, fastTanhEnabled, tanhCalls,
                   built, released, issued, destroyed, nErased, triedLoad,
                   loadedOnce>>
nam_setSampleRate(rate) ==
    /\ sampleRate' = rate
    /\ instances' = ResetAll(instances, rate, maxBufferSize)
    /\ last' = Call("setSampleRate", NoHandle, FALSE, FALSE, rate, NoBlock, NoBlock,
                    ResetAllLog(instances, maxBufferSize),
                    ResetAllRaises(instances, maxBufferSize))
    /\ UNCHANGED <<nextInstanceId, maxBufferSize, fastTanhEnabled, tanhCalls,
                   built, released, issued, destroyed, nErased, triedLoad,
                   loadedOnce>>

nam_setMaxBufferSize(size) ==
    /\ maxBufferSize' = size
    /\ instances' = ResetAll(instances, sampleRate, maxBufferSize')
    /\ last' = Call("setMaxBufferSize", NoHandle, FALSE, FALSE, size, NoBlock,
                    NoBlock, ResetAllLog(instances, size),
                    ResetAllRaises(instances, size))
    /\ UNCHANGED <<nextInstanceId, sampleRate, fastTanhEnabled, tanhCalls, built,
                   released, issued, destroyed, nErased, triedLoad, loadedOnce>>

\* it->second->Reset(sampleRate, maxBufferSize): DSP::Reset on the engine the
\* slot holds, not unique_ptr::reset on the slot
Reinitialised_Releases(m, id, rate, size) == Put(m, id, NoEngine)
Reinitialised(m, id, rate, size) ==
    [m EXCEPT ![id] = ResetCalled(m[id], rate, size)]

nam_reset(id) ==
    /\ IF Holds(id)
       THEN /\ instances' = Reinitialised(instances, id, sampleRate, maxBufferSize)
            /\ last' = Call("reset", id, TRUE, FALSE, 0, NoBlock, NoBlock,
                            <<"Reset">>, ResetRaises(instances[id], maxBufferSize))
       ELSE /\ instances' = instances
            /\ last' = Call("reset", id, Found(id), FALSE, 0, NoBlock, NoBlock,
                            <<>>, FALSE)
    /\ UNCHANGED <<nextInstanceId, sampleRate, maxBufferSize, fastTanhEnabled,
                   tanhCalls, built, released, issued, destroyed, nErased,
                   triedLoad, loadedOnce>>

\* the host calls the exports one at a time: every call returns before the
\* next is made, on whatever thread
Next ==
    \/ (nextInstanceId < MaxCreates /\ nam_createInstance /\ UNCHANGED <<audio, ctl>>)
    \/ \E id \in Handles : nam_destroyInstance(id) /\ UNCHANGED <<audio, ctl>>
    \/ \E id \in Handles, d \in Descs :
          /\ Found(id) /\ ~GetDspThrows(d) /\ ~GetDspNull(d) => built < MaxLoads
          /\ nam_loadModel(id, d)
          /\ UNCHANGED <<audio, ctl>>
    \/ \E id \in Handles : nam_unloadModel(id) /\ UNCHANGED <<audio, ctl>>
    \/ \E id \in Handles, input \in Blocks, numFrames \in FrameCounts :
          nam_process(id, input, FreshOutput, numFrames) /\ UNCHANGED <<audio, ctl>>
    \/ \E rate \in Rates : nam_setSampleRate(rate) /\ UNCHANGED <<audio, ctl>>
    \/ \E size \in Sizes : nam_setMaxBufferSize(size) /\ UNCHANGED <<audio, ctl>>
    \/ \E id \in Handles : nam_reset(id) /\ UNCHANGED <<audio, ctl>>

Spec == Init /\ [][Next]_vars

(* ------------- the audio thread beside the control thread ------------- *)
\* The file takes no lock and uses no atomic: when the host calls
\* nam_process on its audio thread without serializing it against the
\* control thread's calls, a control call can run between the lookup of
\* nam_process (lines 142-143) and the end of the engine's process (line 144).

\* lines 142-143 and 146-148: the lookup; without an engine the bypass is
\* done at once, on the host's own buffers
ProcessLookup(id, input, output, numFrames) ==
    /\ audio = Idle
    /\ IF Holds(id)
       THEN /\ audio' = [pc |-> "process", id |-> id, dsp |-> instances[id].eid,
                         input |-> input, output |-> output,
                         numFrames |-> numFrames]
            /\ last' = last
       ELSE /\ audio' = Idle
            /\ last' = Call("process", id, Found(id), FALSE, numFrames, input,
                            Memcpy(output, input, ByteCount(numFrames)),
                            <<>>, FALSE)
    /\ UNCHANGED <<instances, nextInstanceId, sampleRate, maxBufferSize,
                   fastTanhEnabled, tanhCalls, built, released, issued, destroyed,
                   nErased, triedLoad, loadedOnce, ctl>>

\* what a process call on a destroyed engine can leave in the output block:
\* nothing, or the transform of whatever the freed memory holds
StaleOutputs(input, output, n) ==
    {output} \cup {TransformOut([mem |-> m], input, output, n) : m \in {0, 1}}

\* line 144: it->second->process(input, output, numFrames), through the
\* iterator the lookup returned. If the engine was released in between, the
\* call runs on freed memory: any output, and it may fault.
ProcessTransform ==
    /\ audio.pc = "process"
    /\ IF Holds(audio.id) /\ instances[audio.id].eid = audio.dsp
       THEN /\ instances' = [instances EXCEPT ![audio.id].mem =
                                TransformMem(instances[audio.id], audio.input,
                                             audio.numFrames)]
            /\ last' = Call("process", audio.id, TRUE, FALSE, audio.numFrames,
                            audio.input,
                            TransformOut(instances[audio.id], audio.input,
                                         audio.output, audio.numFrames),
                            <<"process">>, FALSE)
       ELSE /\ instances' = instances
            /\ \E out \in StaleOutputs(audio.input, audio.output, audio.numFrames),
                  fault \in BOOLEAN :
                  last' = Call("process", audio.id, TRUE, FALSE, audio.numFrames,
                               audio.input, out, <<"process">>, fault)
    /\ audio' = Idle
    /\ UNCHANGED <<nextInstanceId, sampleRate, maxBufferSize, fastTanhEnabled,
                   tanhCalls, built, released, issued, destroyed, nErased,
                   triedLoad, loadedOnce, ctl>>

\* the control thread's calls, each run to its end, and the two halves of the
\* audio thread's nam_process, in any order
NextAudio ==
    \/ (nextInstanceId < MaxCreates /\ nam_createInstance /\ UNCHANGED <<audio, ctl>>)
    \/ \E id \in Handles : nam_destroyInstance(id) /\ UNCHANGED <<audio, ctl>>
    \/ \E id \in Handles, d \in Descs :
          /\ Found(id) /\ ~GetDspThrows(d) /\ ~GetDspNull(d) => built < MaxLoads
          /\ nam_loadModel(id, d)
          /\ UNCHANGED <<audio, ctl>>
    \/ \E id \in Handles : nam_unloadModel(id) /\ UNCHANGED <<audio, ctl>>
    \/ \E rate \in Rates : nam_setSampleRate(rate) /\ UNCHANGED <<audio, ctl>>
    \/ \E size \in Sizes : nam_setMaxBufferSize(size) /\ UNCHANGED <<audio, ctl>>
    \/ \E id \in Handles : nam_reset(id) /\ UNCHANGED <<audio, ctl>>
    \/ \E id \in Handles, input \in Blocks, numFrames \in FrameCounts :
          ProcessLookup(id, input, FreshOutput, numFrames)
    \/ ProcessTransform

SpecAudio == Init /\ [][NextAudio]_vars

(* ---------------- control threads that are not serialized -------------- *)
\* Calls of nam_loadModel, nam_setSampleRate and nam_setMaxBufferSize made on
\* several threads at once, each taken apart at its reads and writes of the
\* globals and of the registry. A call in flight is kept in ctl; last, the
\* record of the serialized calls, is left alone. Engines whose Reset raises
\* are left to Spec, where the setters are studied with them.
StepDescs == Descs \ {"small"}
LoadPcs == {"built", "configured", "warmed"}
SetterPcs == {"setRate", "setSize"}

\* lines 83-95 of nam_loadModel: the lookup, the guarded switch and get_dsp
LoadLookup(t, id, d) ==
    /\ ctl[t] = Idle
    /\ IF ~Found(id)
       THEN UNCHANGED <<fastTanhEnabled, tanhCalls, built, triedLoad, ctl>>
       ELSE LET noDsp == GetDspThrows(d) \/ GetDspNull(d)
            IN /\ fastTanhEnabled' = TRUE
               /\ tanhCalls' = IF fastTanhEnabled THEN tanhCalls ELSE tanhCalls + 1
               /\ triedLoad' = TRUE
               /\ built' = IF noDsp THEN built ELSE built + 1
               /\ ctl' = IF noDsp THEN ctl
                         ELSE [ctl EXCEPT ![t] =
                                 [pc |-> "built", id |-> id,
                                  dsp |-> NewEngine(d, built)]]
    /\ UNCHANGED <<instances, nextInstanceId, sampleRate, maxBufferSize, released,
                   issued, destroyed, nErased, loadedOnce, last, audio>>

\* line 97: dsp->Reset(sampleRate, maxBufferSize), the globals read here; an
\* exception is caught on line 102 and the local engine destroyed
LoadReset(t) ==
    /\ ctl[t].pc = "built"
    /\ IF ResetRaises(ctl[t].dsp, maxBufferSize)
       THEN /\ released' = released \cup {ctl[t].dsp.eid}
            /\ ctl' = [ctl EXCEPT ![t] = Idle]
       ELSE /\ released' = released
            /\ ctl' = [ctl EXCEPT ![t].pc = "configured",
                                  ![t].dsp = ResetCalled(ctl[t].dsp, sampleRate,
                                                         maxBufferSize)]
    /\ UNCHANGED <<instances, nextInstanceId, sampleRate, maxBufferSize,
                   fastTanhEnabled, tanhCalls, built, issued, destroyed, nErased,
                   triedLoad, loadedOnce, last, audio>>

\* line 98: dsp->prewarm()
LoadWarm(t) ==
    /\ ctl[t].pc = "configured"
    /\ IF PrewarmRaises(ctl[t].dsp)
       THEN /\ released' = released \cup {ctl[t].dsp.eid}
            /\ ctl' = [ctl EXCEPT ![t] = Idle]
       ELSE /\ released' = released
            /\ ctl' = [ctl EXCEPT ![t].pc = "warmed",
                                  ![t].dsp = Prewarmed(ctl[t].dsp)]
    /\ UNCHANGED <<instances, nextInstanceId, sampleRate, maxBufferSize,
                   fastTanhEnabled, tanhCalls, built, issued, destroyed, nErased,
                   triedLoad, loadedOnce, last, audio>>

\* the statement of the try block after which the engine is moved into the slot
ReadyToStore_Built(c) == c.pc = "built"
ReadyToStore(c) == c.pc = "warmed"

\* lines 99-100: it->second = std::move(dsp); return true
LoadStore(t) ==
    /\ ReadyToStore(ctl[t])
    /\ instances' = Put(instances, ctl[t].id, ctl[t].dsp)
    /\ released' = released \cup SlotEngine(ctl[t].id)
    /\ loadedOnce' = TRUE
    /\ ctl' = [ctl EXCEPT ![t] = Idle]
    /\ UNCHANGED <<nextInstanceId, sampleRate, maxBufferSize, fastTanhEnabled,
                   tanhCalls, built, issued, destroyed, nErased, triedLoad, last,
                   audio>>

\* line 160: sampleRate = rate; the loop has not started
SetRateStore(t, rate) ==
    /\ ctl[t] = Idle
    /\ sampleRate' = rate
    /\ ctl' = [ctl EXCEPT ![t] = [pc |-> "setRate", rate |-> rate, at |-> NoHandle]]
    /\ UNCHANGED <<instances, nextInstanceId, maxBufferSize, fastTanhEnabled,
                   tanhCalls, built, released, issued, destroyed, nErased,
                   triedLoad, loadedOnce, last, audio>>

\* line 185: maxBufferSize = size
SetSizeStore(t, size) ==
    /\ ctl[t] = Idle
    /\ maxBufferSize' = size
    /\ ctl' = [ctl EXCEPT ![t] = [pc |-> "setSize", rate |-> 0, at |-> NoHandle]]
    /\ UNCHANGED <<instances, nextInstanceId, sampleRate, fastTanhEnabled,
                   tanhCalls, built, released, issued, destroyed, nErased,
                   triedLoad, loadedOnce, last, audio>>

\* lines 162-165 and 187-190, one turn of the loop: the next entry in key
\* order, Reset on its engine if it has one. nam_setSampleRate passes its
\* parameter rate and the global maxBufferSize, nam_setMaxBufferSize the two
\* globals, each read at the call. Past the last entry the setter returns.
SetterWalk(t) ==
    /\ ctl[t].pc \in SetterPcs
    /\ LET later == {k \in DOMAIN instances : k > ctl[t].at}
           k == CHOOSE j \in later : \A i \in later : j <= i
           rate == IF ctl[t].pc = "setRate" THEN ctl[t].rate ELSE sampleRate
       IN IF later = {}
          THEN /\ ctl' = [ctl EXCEPT ![t] = Idle]
               /\ instances' = instances
          ELSE IF instances[k] = NoEngine
          THEN /\ ctl' = [ctl EXCEPT ![t].at = k]
               /\ instances' = instances
          ELSE /\ instances' = [instances EXCEPT ![k] =
                                   ResetCalled(instances[k], rate, maxBufferSize)]
               /\ ctl' = IF ResetRaises(instances[k], maxBufferSize)
                         THEN [ctl EXCEPT ![t] = Idle]
                         ELSE [ctl EXCEPT ![t].at = k]
    /\ UNCHANGED <<nextInstanceId, sampleRate, maxBufferSize, fastTanhEnabled,
                   tanhCalls, built, released, issued, destroyed, nErased,
                   triedLoad, loadedOnce, last, audio>>

NextControl ==
    \/ (nextInstanceId < MaxCreates /\ nam_createInstance /\ UNCHANGED <<audio, ctl>>)
    \/ \E t \in Threads, id \in Handles, d \in StepDescs :
          /\ Found(id) /\ ~GetDspThrows(d) /\ ~GetDspNull(d) => built < MaxLoads
          /\ LoadLookup(t, id, d)
    \/ \E t \in Threads : LoadReset(t)
    \/ \E t \in Threads : LoadWarm(t)
    \/ \E t \in Threads : LoadStore(t)
    \/ \E t \in Threads, rate \in Rates : SetRateStore(t, rate)
    \/ \E t \in Threads, size \in Sizes : SetSizeStore(t, size)
    \/ \E t \in Threads : SetterWalk(t)

SpecControl == Init /\ [][NextControl]_vars

(* ------------------------------ properties ---------------------------- *)
\* a handle that is unknown: not yet returned by nam_createInstance, or erased
Unknown(h) == h \notin DOMAIN instances
\* the output block a bypass of n frames of input inp leaves: the first n
\* samples of inp in order, the rest as the host handed it over
BypassOut(inp, n) == [i \in 1 .. BlockLen |-> IF i <= n THEN inp[i] ELSE FreshOutput[i]]
Has(log, c) == \E i \in 1 .. Len(log) : log[i] = c

\* C1: the handles nam_createInstance returns are non-negative and strictly
\* increasing in call order, so none is returned twice, also after the
\* instance that held it was destroyed.
C1_HandlesIncrease ==
    /\ \A i \in 1 .. Len(issued) : issued[i] >= 0
    /\ \A i, j \in 1 .. Len(issued) : i < j => issued[i] < issued[j]
    /\ last.op = "createInstance" => last.val = issued[Len(issued)]
\* a handle is issued after an earlier one was destroyed
C1_Witness ==
    /\ last.op = "createInstance"
    /\ Len(issued) = MaxCreates
    /\ destroyed # {}

\* C2: nam_getInstanceCount() is the number of nam_createInstance calls minus
\* the number of nam_destroyInstance calls that found their handle; no other
\* operation changes it, and instances without an engine are counted.
C2_CountIsCreatesMinusDestroys ==
    /\ [](nam_getInstanceCount = Len(issued) - nErased)
    /\ [][last'.op \notin {"createInstance", "destroyInstance"}
            => nam_getInstanceCount' = nam_getInstanceCount]_vars
\* one instance erased, then a destroy that missed; an instance without an
\* engine is left and counted
C2_Witness ==
    /\ last.op = "destroyInstance" /\ ~last.found
    /\ nErased = 1
    /\ nam_getInstanceCount = MaxCreates - 1
    /\ \E h \in DOMAIN instances : ~nam_hasModel(h)

\* C3: nam_process on a handle that is unknown, or known without an engine,
\* writes exactly the first numFrames input samples, in order, to the output
\* block, raises nothing and calls no engine's transform.
C3_BypassIsIdentity ==
    (last.op = "process" /\ ~nam_hasModel(last.id)) =>
        /\ last.out = BypassOut(last.inp, last.val)
        /\ ~last.raised
        /\ last.log = <<>>
\* a full block bypassed on a destroyed handle while another instance holds
\* an engine
C3_Witness ==
    /\ last.op = "process"
    /\ last.id \in destroyed /\ Unknown(last.id)
    /\ last.val = BlockLen
    /\ \E g \in Handles : nam_hasModel(g)

\* C4: a nam_loadModel that fails on a known handle (the factory returns
\* nullptr or throws, Reset or prewarm throws) returns false and leaves the
\* slot as it was: empty if it was empty, the same engine if it held one.
C4_FailedLoadKeepsSlot ==
    [][(last'.op = "loadModel" /\ last'.found /\ ~last'.ok)
          => /\ instances' = instances
             /\ \A h \in Handles : nam_hasModel(h)' = nam_hasModel(h)]_vars
\* a load whose Reset raised, on an instance that keeps its earlier engine
C4_Witness ==
    /\ last.op = "loadModel" /\ last.found /\ ~last.ok
    /\ Has(last.log, "Reset") /\ ~Has(last.log, "prewarm")
    /\ nam_hasModel(last.id)
    /\ instances[last.id].eid < built - 1

\* C5: between operations every engine held by an instance was last
\* configured with (nam_getSampleRate(), nam_getMaxBufferSize()).
C5_EnginesCarryCurrentConfig ==
    \A h \in DOMAIN instances :
        nam_hasModel(h) => instances[h].cfg = <<nam_getSampleRate, nam_getMaxBufferSize>>

\* C6: a handle is invalid before nam_createInstance returns it and in every
\* state after nam_destroyInstance erased it: nam_hasModel is false,
\* nam_loadModel returns false, nam_process bypasses, nam_unloadModel and
\* nam_reset change nothing, and no later nam_createInstance revives it.
C6_DeadHandlesStayInvalid ==
    /\ [](\A h \in Handles :
            (h \in destroyed \/ h >= nextInstanceId) =>
                /\ Unknown(h)
                /\ ~nam_hasModel(h)
                /\ (last.op = "loadModel" /\ last.id = h) => ~last.ok /\ last.log = <<>>
                /\ (last.op = "process" /\ last.id = h) =>
                       last.out = BypassOut(last.inp, last.val) /\ last.log = <<>>)
    /\ [][/\ destroyed \subseteq destroyed'
          /\ (last'.op \in {"unloadModel", "reset", "loadModel", "process"}
                /\ last'.id \in destroyed) => prog' = prog]_vars
\* every handle has been issued, one was destroyed, and a load on it failed
C6_Witness ==
    /\ nextInstanceId = MaxCreates
    /\ last.op = "loadModel" /\ last.id \in destroyed /\ ~last.ok
    /\ loadedOnce

\* C7 as stated: the flag is false as long as no nam_loadModel has returned
\* true.
C7_FlagOnlyAfterSuccess == fastTanhEnabled => loadedOnce
\* C7 as amended: the flag is false at start, true from the first
\* nam_loadModel call that finds its handle on (set before the factory is
\* called, whether or not the load succeeds), and never false again.
C7_FlagSetByFirstAttempt ==
    /\ [](fastTanhEnabled <=> triedLoad)
    /\ [](loadedOnce => fastTanhEnabled)
    /\ [][fastTanhEnabled => fastTanhEnabled']_vars
\* the flag is set although every load so far has failed
C7_Witness ==
    /\ fastTanhEnabled /\ ~loadedOnce
    /\ last.op = "loadModel" /\ last.found /\ ~last.ok

\* C8: Activation::enable_fast_tanh() is called at most once, and every call
\* of nam::get_dsp comes after it.
C8_SwitchOnceBeforeFactory ==
    /\ tanhCalls <= 1
    /\ built > 0 => tanhCalls = 1
    /\ \A i \in 1 .. Len(last.log) :
          last.log[i] = "get_dsp" =>
             /\ tanhCalls = 1
             /\ \A j \in 1 .. Len(last.log) : last.log[j] = "enable_fast_tanh" => j < i
\* a second engine is built without a second call of the switch
C8_Witness ==
    /\ last.op = "loadModel" /\ last.ok
    /\ last.log[1] = "get_dsp"
    /\ built = MaxLoads
    /\ tanhCalls = 1

\* C9: no exported operation lets an exception reach the host.
C9_NothingPropagates == ~last.raised

\* C10: nam_destroyInstance on an unknown handle changes nothing, and after
\* nam_destroyInstance(h) the handle is unknown, so a second
\* nam_destroyInstance(h) leaves the state the first one made.
C10_DestroyIdempotent ==
    [][last'.op = "destroyInstance" =>
          /\ last'.id \notin DOMAIN instances'
          /\ Unknown(last'.id) =>
                prog' = prog /\ nErased' = nErased /\ released' = released
          /\ (last.op = "destroyInstance" /\ last.id = last'.id) => prog' = prog]_vars
\* a destroy repeated on the same handle, with a loaded instance left to keep
C10_Witness ==
    /\ last.op = "destroyInstance" /\ ~last.found
    /\ last.id \in destroyed
    /\ \E g \in Handles : nam_hasModel(g)

\* C11: nam_unloadModel on a handle that holds an engine empties that slot and
\* nothing else: the handle stays registered, the count is unchanged and
\* nam_hasModel is false; it stays false, and nam_process on it bypasses,
\* until a nam_loadModel on that handle succeeds. On an empty instance or an
\* unknown handle nam_unloadModel changes nothing.
C11_UnloadEmptiesSlotOnly ==
    /\ [][last'.op = "unloadModel" =>
            IF Holds(last'.id)
            THEN /\ DOMAIN instances' = DOMAIN instances
                 /\ instances'[last'.id] = NoEngine
                 /\ nam_getInstanceCount' = nam_getInstanceCount
                 /\ \A g \in DOMAIN instances \ {last'.id} :
                        instances'[g] = instances[g]
                 /\ <<nextInstanceId, sampleRate, maxBufferSize, fastTanhEnabled>>'
                      = <<nextInstanceId, sampleRate, maxBufferSize, fastTanhEnabled>>
            ELSE prog' = prog]_vars
    /\ [][\A h \in Handles :
            (Found(h) /\ ~nam_hasModel(h) /\ nam_hasModel(h)')
                => (last'.op = "loadModel" /\ last'.id = h /\ last'.ok)]_vars
    /\ [][(last'.op = "process" /\ Found(last'.id) /\ ~nam_hasModel(last'.id))
            => (last'.out = BypassOut(last'.inp, last'.val) /\ last'.log = <<>>)]_vars
\* the only engine ever stored was released by an unload that found its
\* handle; the instance is still registered, empty
C11_Witness ==
    /\ last.op = "unloadModel" /\ last.found
    /\ loadedOnce /\ built = 1 /\ released = {0} /\ nErased = 0
    /\ Found(last.id) /\ ~nam_hasModel(last.id)

\* C12 as stated: nam_getModelLoudness returns the loudness the engine holds
\* (a double) whenever nam_hasModelLoudness is true.
C12_LoudnessIsEngineValue ==
    \A h \in Handles :
        nam_hasModelLoudness(h) => nam_getModelLoudness(h) = GetLoudness(instances[h])
\* C12: nam_getModelLoudness(h) is 0 and nam_hasModelLoudness(h) is false when
\* h is unknown, holds no engine, or holds an engine without loudness
\* metadata; nam_hasModelLoudness(h) implies nam_hasModel(h); and when
\* nam_hasModelLoudness(h) is true nam_getModelLoudness(h) is the engine's
\* loudness narrowed to float.
C12_LoudnessGuarded ==
    \A h \in Handles \cup {NoHandle} :
        /\ (Unknown(h) \/ instances[h] = NoEngine \/ ~HasLoudness(instances[h]))
              => (nam_getModelLoudness(h) = 0 /\ ~nam_hasModelLoudness(h))
        /\ nam_hasModelLoudness(h) => nam_hasModel(h)
        /\ nam_hasModelLoudness(h)
              => nam_getModelLoudness(h) = ToFloat(GetLoudness(instances[h]))
        /\ (~Unknown(h) /\ instances[h] # NoEngine /\ HasLoudness(instances[h]))
              => nam_hasModelLoudness(h)
\* one instance holds an engine with loudness metadata, another an engine
\* without
C12_Witness ==
    \E h, g \in Handles :
        /\ nam_hasModelLoudness(h)
        /\ nam_hasModel(g) /\ ~nam_hasModelLoudness(g)

\* C13: nam_reset on a handle that holds an engine keeps that engine in its
\* slot (nam_hasModel stays true, nothing is constructed or released), calls
\* Reset on it once with the current (sampleRate, maxBufferSize), which clears
\* the engine's state when it returns, and changes nothing else; a second
\* nam_reset on the same handle right after the first changes nothing more.
\* On an empty instance or an unknown handle nam_reset changes nothing.
C13_ResetKeepsEngineIdempotent ==
    /\ [][last'.op = "reset" =>
            IF Holds(last'.id)
            THEN /\ DOMAIN instances' = DOMAIN instances
                 /\ instances'[last'.id] # NoEngine
                 /\ instances'[last'.id].eid = instances[last'.id].eid
                 /\ instances'[last'.id].kind = instances[last'.id].kind
                 /\ instances'[last'.id].warmed = instances[last'.id].warmed
                 /\ instances'[last'.id].cfg = <<sampleRate, maxBufferSize>>
                 /\ last'.log = <<"Reset">>
                 /\ ~last'.raised => instances'[last'.id].mem = 0
                 /\ \A g \in DOMAIN instances \ {last'.id} :
                        instances'[g] = instances[g]
                 /\ <<built, released, tanhCalls>>' = <<built, released, tanhCalls>>
                 /\ <<nextInstanceId, sampleRate, maxBufferSize, fastTanhEnabled>>'
                      = <<nextInstanceId, sampleRate, maxBufferSize, fastTanhEnabled>>
            ELSE /\ prog' = prog
                 /\ last'.log = <<>>
                 /\ <<built, released>>' = <<built, released>>]_vars
    /\ [][(last.op = "reset" /\ last'.op = "reset" /\ last'.id = last.id)
            => prog' = prog]_vars
\* a reset that returned on an engine that had been reconfigured away from
\* both defaults
C13_Witness ==
    /\ last.op = "reset" /\ last.found /\ ~last.raised
    /\ nam_hasModel(last.id)
    /\ instances[last.id].cfg = <<44100, 256>>
    /\ instances[last.id].mem = 0

\* C14: nam_getSampleRate() is 48000 until the first nam_setSampleRate and
\* from then on the argument of the most recent one; nam_getMaxBufferSize()
\* is 128 until the first nam_setMaxBufferSize and then the most recent
\* argument; neither setter changes the other value, and no other operation
\* changes either.
C14_ConfigFollowsSetters ==
    /\ (nam_getSampleRate = DefaultSampleRate
          /\ nam_getMaxBufferSize = DefaultMaxBufferSize)
    /\ [][/\ last'.op = "setSampleRate"
                => /\ nam_getSampleRate' = last'.val
                   /\ nam_getMaxBufferSize' = nam_getMaxBufferSize
          /\ last'.op = "setMaxBufferSize"
                => /\ nam_getMaxBufferSize' = last'.val
                   /\ nam_getSampleRate' = nam_getSampleRate
          /\ last'.op \notin {"setSampleRate", "setMaxBufferSize"}
                => /\ nam_getSampleRate' = nam_getSampleRate
                   /\ nam_getMaxBufferSize' = nam_getMaxBufferSize]_vars
\* a sample rate set earlier is still returned after the buffer size was set
\* and an engine's Reset raised out of the setter
C14_Witness ==
    /\ last.op = "setSampleRate" /\ last.raised
    /\ nam_getSampleRate = 44100
    /\ nam_getMaxBufferSize = 256

\* C15: nam_loadModel on an unknown handle returns false and changes nothing,
\* whatever the description: no registry entry appears, the count, the other
\* instances, the configuration and the fast-tanh flag are unchanged, and
\* neither the switch nor the factory is called.
C15_LoadOnUnknownIsNoOp ==
    [][(last'.op = "loadModel" /\ Unknown(last'.id))
          => /\ ~last'.ok /\ ~last'.found /\ ~last'.raised
             /\ last'.log = <<>>
             /\ prog' = prog
             /\ nam_getInstanceCount' = nam_getInstanceCount
             /\ <<built, released, tanhCalls>>' = <<built, released, tanhCalls>>]_vars
\* a load missed a destroyed handle while another instance is live and the
\* fast-tanh switch has never been enabled
C15_Witness ==
    /\ last.op = "loadModel" /\ ~last.found
    /\ last.id \in destroyed
    /\ ~fastTanhEnabled /\ built = 0
    /\ nam_getInstanceCount >= 1

\* the engines the registry holds, and the engines get_dsp has returned
Owned == {instances[h].eid : h \in {k \in DOMAIN instances : instances[k] # NoEngine}}
Constructed == 0 .. built - 1

\* C16: with the audio thread's nam_process not serialized against the
\* control thread, no nam_loadModel, nam_unloadModel or nam_destroyInstance
\* on a handle takes effect between the engine lookup of a nam_process on
\* that handle and the end of its transform: nam_process is never in flight
\* on an engine that has been released.
C16_NoProcessOnReleasedEngine ==
    audio.pc = "process" => audio.dsp \notin released

\* C17: when nam_setSampleRate, nam_setMaxBufferSize and nam_loadModel calls
\* overlap, then once all of them have returned every engine in the registry
\* is configured with the sample rate and buffer size the globals hold: the
\* last writer wins for the globals and for every engine, and an engine
\* stored by an overlapping load does not keep a value from before a change.
C17_EnginesCarryFinalConfig ==
    (\A t \in Threads : ctl[t] = Idle) =>
        \A h \in DOMAIN instances :
            instances[h] # NoEngine
                => instances[h].cfg = <<sampleRate, maxBufferSize>>

\* C18: a nam_loadModel that succeeds goes through construct, Reset with the
\* globals as they are at that moment, prewarm, store, in this order. The
\* engine it builds is in no slot before the store, so every engine a slot
\* holds (what nam_hasModel and nam_process see) has been configured and
\* warmed; the slot keeps what it held until the store, which puts the new
\* engine in.
C18_StoredOnlyWhenReady ==
    /\ [](/\ \A h \in DOMAIN instances :
                instances[h] # NoEngine
                    => /\ instances[h].warmed
                       /\ instances[h].cfg[1] \in Rates
                       /\ instances[h].cfg[2] \in Sizes
          /\ \A t \in Threads :
                ctl[t].pc \in LoadPcs
                    => /\ ctl[t].dsp.eid \notin Owned
                       /\ ctl[t].dsp.eid \notin released
                       /\ ctl[t].dsp.warmed = (ctl[t].pc = "warmed")
                       /\ (ctl[t].dsp.cfg # <<0, 0>>) = (ctl[t].pc # "built"))
    /\ [][\A t \in Threads :
            /\ (ctl[t].pc \notin LoadPcs /\ ctl'[t].pc \in LoadPcs)
                  => (ctl'[t].pc = "built" /\ instances' = instances)
            /\ (ctl[t].pc = "built" /\ ctl'[t] # ctl[t])
                  => /\ instances' = instances
                     /\ ctl'[t].pc \in {"configured", "idle"}
                     /\ ctl'[t].pc = "configured"
                           => ctl'[t].dsp.cfg = <<sampleRate, maxBufferSize>>
            /\ (ctl[t].pc = "configured" /\ ctl'[t] # ctl[t])
                  => /\ instances' = instances
                     /\ ctl'[t].pc \in {"warmed", "idle"}
            /\ (ctl[t].pc = "warmed" /\ ctl'[t] # ctl[t])
                  => /\ ctl'[t] = Idle
                     /\ instances'[ctl[t].id] = ctl[t].dsp
                     /\ \A g \in DOMAIN instances \ {ctl[t].id} :
                           instances'[g] = instances[g]]_vars
\* a load has built, configured and warmed its engine and is about to store
\* it; the slot still holds the engine of an earlier load
C18_Witness ==
    \E t \in Threads :
        /\ ctl[t].pc = "warmed"
        /\ Holds(ctl[t].id)
        /\ instances[ctl[t].id].eid # ctl[t].dsp.eid

\* C19: the engines constructed and not yet released are exactly the engines
\* held by the live instances, each by one instance only. A successful
\* nam_loadModel over an engine releases the old one, nam_unloadModel and
\* nam_destroyInstance release the engine held, a nam_loadModel that fails
\* after construction releases the engine it built; a released engine is
\* never held again, so none is released twice.
C19_EnginesOwnedOnce ==
    /\ [](/\ released \subseteq Constructed
          /\ Owned = Constructed \ released
          /\ \A h, g \in DOMAIN instances :
                (h # g /\ instances[h] # NoEngine /\ instances[g] # NoEngine)
                    => instances[h].eid # instances[g].eid)
    /\ [][/\ released \subseteq released'
          /\ (last'.op = "loadModel" /\ last'.ok /\ Holds(last'.id))
                => released' = released \cup {instances[last'.id].eid}
          /\ (last'.op = "loadModel" /\ ~last'.ok /\ built' # built)
                => released' = released \cup {built}
          /\ (last'.op \in {"unloadModel", "destroyInstance"} /\ Holds(last'.id))
                => released' = released \cup {instances[last'.id].eid}
          /\ last'.op \notin {"loadModel", "unloadModel", "destroyInstance"}
                => released' = released]_vars
\* a load that failed after construction released its own engine and left the
\* instance holding the engine it had
C19_Witness ==
    /\ last.op = "loadModel" /\ last.found /\ ~last.ok
    /\ built = 2 /\ released = {1}
    /\ nam_hasModel(last.id) /\ instances[last.id].eid = 0

\* C20: nam_loadModel, nam_unloadModel, nam_reset, nam_destroyInstance and
\* nam_process on a handle leave every other handle as it was: registered or
\* not, with the same engine in the same state and configuration (and so the
\* same nam_hasModel).
C20_OtherInstancesUntouched ==
    [][last'.op \in {"loadModel", "unloadModel", "reset", "destroyInstance",
                      "process"}
          => \A g \in Handles \ {last'.id} :
                /\ (g \in DOMAIN instances') = (g \in DOMAIN instances)
                /\ g \in DOMAIN instances => instances'[g] = instances[g]]_vars
\* an instance with an engine was destroyed while another instance's engine,
\* which has processed samples, is still in place
C20_Witness ==
    /\ last.op = "destroyInstance" /\ last.found
    /\ released # {}
    /\ \E g \in Handles \ {last.id} : nam_hasModel(g) /\ instances[g].mem = 1
=============================================================================
